---- MODULE Spec2Model ----
(***************************************************************************)
(* A model of calcon's App (src/calcon/app.py): the registry of unit and   *)
(* prefix definitions, the lookup of a unit name, the reduction of a unit  *)
(* to root units, and the conversion and the arithmetic of quantities.     *)
(*                                                                         *)
(* A Python str is a TLA+ string.  A Decimal is an exact fraction          *)
(* [n |-> numerator, d |-> denominator] in lowest terms; the magnitudes    *)
(* the model feeds in have only the prime factors 2 and 5, so every        *)
(* product and quotient is a terminating decimal the code computes         *)
(* exactly.  A dict that the code iterates (a _Unit) is the sequence of    *)
(* its items in insertion order; a dict that is only indexed is a function.*)
(* A method that can raise returns the record [raised, self, value]: the   *)
(* exception's class ("none" when it returns), the App's fields when the   *)
(* call ends, and the value returned.                                      *)
(***************************************************************************)
EXTENDS Integers, Sequences, FiniteSets, TLC

VARIABLES _unit_definitions, _dimensions_to_units, _units_to_symbols,
          _prefix_definitions, _prefixes_to_symbols, result

vars == <<_unit_definitions, _dimensions_to_units, _units_to_symbols,
          _prefix_definitions, _prefixes_to_symbols, result>>

(***************************************************************************)
(* Bounds of the model.                                                    *)
(***************************************************************************)
\* the number of definitions (units and prefixes together) a run may make
MaxDefs == 3
\* the largest absolute value of an exponent given as an input
MaxPower == 2
\* the longest name the properties resolve
MaxNameLen == 4
\* the largest absolute value of an exponent a quantity is raised to
MaxExponent == 20

(***************************************************************************)
(* Decimal arithmetic.                                                     *)
(***************************************************************************)
Abs(i) == IF i < 0 THEN -i ELSE i

RECURSIVE GCD(_, _)
GCD(a, b) == IF b = 0 THEN a ELSE GCD(b, a % b)

\* the Decimal n/d (d # 0), in lowest terms with a positive denominator
Decimal(n, d) ==
    LET g == GCD(Abs(n), Abs(d))
        s == IF d < 0 THEN -1 ELSE 1
    IN  [n |-> (s * n) \div g, d |-> (s * d) \div g]

D(i) == Decimal(i, 1)

DecMul(x, y) == Decimal(x.n * y.n, x.d * y.d)
DecAdd(x, y) == Decimal(x.n * y.d + y.n * x.d, x.d * y.d)
\* x / y for y # 0
DecDiv(x, y) == Decimal(x.n * y.d, x.d * y.n)
\* bool(x): a Decimal is falsy exactly when it is zero
DecTruthy(x) == x.n # 0
\* -x and x - y
DecNeg(x) == Decimal(-x.n, x.d)
DecSub(x, y) == DecAdd(x, DecNeg(y))
\* Decimal("Infinity"): the value of 0 ** y for a negative y
Infinity == [n |-> 1, d |-> 0]

RECURSIVE DecPow(_, _)
\* x to the integer power k (x # 0 when k < 0)
DecPow(x, k) ==
    IF k = 0 THEN D(1)
    ELSE IF k < 0 THEN DecDiv(D(1), DecPow(x, -k))
    ELSE DecMul(x, DecPow(x, k - 1))
\* x ** y for an integral y # 0 (the code raises to no power before it has
\* returned for y = 0)
DecPower(x, y) ==
    IF x.n = 0 /\ y.n < 0 THEN Infinity ELSE DecPow(x, y.n)

(***************************************************************************)
(* dict[str, ...]: a function from the keys.                               *)
(***************************************************************************)
EmptyDict == <<>>
DictSet(dict, key, value) ==
    [k \in DOMAIN dict \cup {key} |-> IF k = key THEN value ELSE dict[k]]

(***************************************************************************)
(* _Unit: the items (component, power) of the dict in insertion order.     *)
(* A component is a str (a core unit name) or a tuple (prefix, core).      *)
(***************************************************************************)
Str(core) == [type |-> "str", prefix |-> "", core |-> core]
Tuple(prefix, core) == [type |-> "tuple", prefix |-> prefix, core |-> core]

Item(component, power) == [component |-> component, power |-> power]

UnitKeys(unit) == {unit[i].component : i \in DOMAIN unit}
UnitIndex(unit, component) ==
    CHOOSE i \in DOMAIN unit : unit[i].component = component
\* unit.get(component, default)
UnitGet(unit, component, default) ==
    IF component \in UnitKeys(unit)
    THEN unit[UnitIndex(unit, component)].power
    ELSE default
\* unit[component] = power: an existing key keeps its place, a new one is last
UnitSetItem(unit, component, power) ==
    IF component \in UnitKeys(unit)
    THEN [unit EXCEPT ![UnitIndex(unit, component)].power = power]
    ELSE Append(unit, Item(component, power))
\* unit.pop(component, None)
UnitPop(unit, component) ==
    IF component \in UnitKeys(unit)
    THEN LET i == UnitIndex(unit, component)
         IN  SubSeq(unit, 1, i - 1) \o SubSeq(unit, i + 1, Len(unit))
    ELSE unit
\* unit1 == unit2: dict equality does not look at the order
UnitEq(unit1, unit2) ==
    {unit1[i] : i \in DOMAIN unit1} = {unit2[i] : i \in DOMAIN unit2}

Quantity(magnitude, unit) == [magnitude |-> magnitude, unit |-> unit]

(***************************************************************************)
(* The definition dataclasses.                                             *)
(***************************************************************************)
_RootUnitDefinition(dimension) ==
    [class |-> "_RootUnitDefinition", dimension |-> dimension]
_DerivedUnitDefinition(root_value) ==
    [class |-> "_DerivedUnitDefinition", root_value |-> root_value]
_UnitAliasDefinition(canonical) ==
    [class |-> "_UnitAliasDefinition", canonical |-> canonical]
_CanonicalPrefixDefinition(value) ==
    [class |-> "_CanonicalPrefixDefinition", value |-> value]
_PrefixAliasDefinition(canonical) ==
    [class |-> "_PrefixAliasDefinition", canonical |-> canonical]

(***************************************************************************)
(* The App object, and the outcome of a call on it.                        *)
(***************************************************************************)
App == [_unit_definitions |-> _unit_definitions,
        _dimensions_to_units |-> _dimensions_to_units,
        _units_to_symbols |-> _units_to_symbols,
        _prefix_definitions |-> _prefix_definitions,
        _prefixes_to_symbols |-> _prefixes_to_symbols]

None == [type |-> "NoneType"]
Return(self, value) == [raised |-> "none", self |-> self, value |-> value]
Raise(self, exception) == [raised |-> exception, self |-> self, value |-> None]

(***************************************************************************)
(* Definitions.                                                            *)
(***************************************************************************)
\* a define_root_unit that does not look at the owner of the dimension
define_root_unit_any_dimension(self, unit, dimension) ==
    IF unit \in DOMAIN self._unit_definitions
    THEN Raise(self, "ValueError")
    ELSE Return([self EXCEPT
                   !._unit_definitions =
                       DictSet(@, unit, _RootUnitDefinition(dimension)),
                   !._dimensions_to_units = DictSet(@, dimension, unit)],
                None)

define_root_unit(self, unit, dimension) ==
    IF unit \in DOMAIN self._unit_definitions
    THEN Raise(self, "ValueError")
    ELSE IF dimension \in DOMAIN self._dimensions_to_units
    THEN Raise(self, "ValueError")
    ELSE Return([self EXCEPT
                   !._unit_definitions =
                       DictSet(@, unit, _RootUnitDefinition(dimension)),
                   !._dimensions_to_units = DictSet(@, dimension, unit)],
                None)

\* a define_unit_alias that rebinds a bound name
define_unit_alias_rebinding(self, alias, canonical) ==
    Return([self EXCEPT
              !._unit_definitions =
                  DictSet(@, alias, _UnitAliasDefinition(canonical))],
           None)

define_unit_alias(self, alias, canonical) ==
    IF alias \in DOMAIN self._unit_definitions
    THEN Raise(self, "ValueError")
    ELSE Return([self EXCEPT
                   !._unit_definitions =
                       DictSet(@, alias, _UnitAliasDefinition(canonical))],
                None)

define_unit_symbol_alias(self, symbol, canonical) ==
    LET aliased == define_unit_alias(self, symbol, canonical)
    IN  IF aliased.raised # "none"
        THEN aliased
        ELSE IF canonical \in DOMAIN aliased.self._units_to_symbols
        THEN Raise(aliased.self, "ValueError")
        ELSE Return([aliased.self EXCEPT
                       !._units_to_symbols = DictSet(@, canonical, symbol)],
                    None)

define_canonical_prefix(self, prefix, value) ==
    IF prefix \in DOMAIN self._prefix_definitions
    THEN Raise(self, "ValueError")
    ELSE Return([self EXCEPT
                   !._prefix_definitions =
                       DictSet(@, prefix, _CanonicalPrefixDefinition(value))],
                None)

define_prefix_alias(self, alias, canonical) ==
    IF alias \in DOMAIN self._prefix_definitions
    THEN Raise(self, "ValueError")
    ELSE Return([self EXCEPT
                   !._prefix_definitions =
                       DictSet(@, alias, _PrefixAliasDefinition(canonical))],
                None)

define_prefix_symbol_alias(self, symbol, canonical) ==
    LET aliased == define_prefix_alias(self, symbol, canonical)
    IN  IF aliased.raised # "none"
        THEN aliased
        ELSE IF canonical \in DOMAIN aliased.self._prefixes_to_symbols
        THEN Raise(aliased.self, "ValueError")
        ELSE Return([aliased.self EXCEPT
                       !._prefixes_to_symbols = DictSet(@, canonical, symbol)],
                    None)

(***************************************************************************)
(* Unit operations.                                                        *)
(***************************************************************************)
\* a _unit_lookup that tries the split into a prefix and a unit before the
\* name itself
_unit_lookup_split_first(self, unit_name) ==
    LET splits == {k \in 1 .. Len(unit_name) - 1 :
                      /\ SubSeq(unit_name, 1, k)
                             \in DOMAIN self._prefix_definitions
                      /\ SubSeq(unit_name, k + 1, Len(unit_name))
                             \in DOMAIN self._unit_definitions}
    IN  IF splits # {}
        THEN LET k == CHOOSE i \in splits : \A j \in splits : i <= j
             IN  Return(self, <<Item(Tuple(SubSeq(unit_name, 1, k),
                                           SubSeq(unit_name, k + 1,
                                                  Len(unit_name))),
                                     D(1))>>)
        ELSE IF unit_name \notin DOMAIN self._unit_definitions
        THEN Raise(self, "ValueError")
        ELSE LET definition == self._unit_definitions[unit_name]
             IN  IF definition.class = "_UnitAliasDefinition"
                 THEN Return(self, <<Item(Str(definition.canonical), D(1))>>)
                 ELSE Return(self, <<Item(Str(unit_name), D(1))>>)

\* a _unit_lookup that strips every trailing "s" of a name that is not bound
RECURSIVE _unit_lookup_strip_every_s(_, _)
_unit_lookup_strip_every_s(self, unit_name) ==
    IF unit_name \notin DOMAIN self._unit_definitions
    THEN IF Len(unit_name) > 1
              /\ SubSeq(unit_name, Len(unit_name), Len(unit_name)) = "s"
         THEN _unit_lookup_strip_every_s(
                  self, SubSeq(unit_name, 1, Len(unit_name) - 1))
         ELSE Raise(self, "ValueError")
    ELSE LET definition == self._unit_definitions[unit_name]
         IN  IF definition.class = "_UnitAliasDefinition"
             THEN Return(self, <<Item(Str(definition.canonical), D(1))>>)
             ELSE Return(self, <<Item(Str(unit_name), D(1))>>)

_unit_lookup(self, unit_name) ==
    IF unit_name \notin DOMAIN self._unit_definitions
    THEN Raise(self, "ValueError")
    ELSE LET definition == self._unit_definitions[unit_name]
         IN  IF definition.class = "_UnitAliasDefinition"
             THEN Return(self, <<Item(Str(definition.canonical), D(1))>>)
             ELSE Return(self, <<Item(Str(unit_name), D(1))>>)

\* a _unit_multiply_power_in_place that stores every result, a zero too
RECURSIVE MultiplyPowerKeepingZeroFrom(_, _, _, _)
MultiplyPowerKeepingZeroFrom(multiplicand, multiplier, exponent, i) ==
    IF i > Len(multiplier)
    THEN multiplicand
    ELSE LET component == multiplier[i].component
             result_power ==
                 DecAdd(UnitGet(multiplicand, component, D(0)),
                        DecMul(multiplier[i].power, exponent))
         IN  MultiplyPowerKeepingZeroFrom(
                 UnitSetItem(multiplicand, component, result_power),
                 multiplier, exponent, i + 1)

_unit_multiply_power_in_place_keeping_zero(multiplicand, multiplier, exponent) ==
    MultiplyPowerKeepingZeroFrom(multiplicand, multiplier, exponent, 1)

\* the loop of _unit_multiply_power_in_place from the i-th item of multiplier
RECURSIVE MultiplyPowerFrom(_, _, _, _)
MultiplyPowerFrom(multiplicand, multiplier, exponent, i) ==
    IF i > Len(multiplier)
    THEN multiplicand
    ELSE LET component == multiplier[i].component
             multiplier_power == multiplier[i].power
             multiplicand_power == UnitGet(multiplicand, component, D(0))
             result_power ==
                 DecAdd(multiplicand_power, DecMul(multiplier_power, exponent))
         IN  MultiplyPowerFrom(
                 IF DecTruthy(result_power)
                 THEN UnitSetItem(multiplicand, component, result_power)
                 ELSE UnitPop(multiplicand, component),
                 multiplier, exponent, i + 1)

\* the value of multiplicand when the call returns
_unit_multiply_power_in_place(multiplicand, multiplier, exponent) ==
    MultiplyPowerFrom(multiplicand, multiplier, exponent, 1)

(***************************************************************************)
(* Prefix operations.                                                      *)
(***************************************************************************)
_prefix_value(self, prefix) ==
    IF prefix \notin DOMAIN self._prefix_definitions
    THEN Raise(self, "KeyError")
    ELSE LET definition == self._prefix_definitions[prefix]
         IN  IF definition.class = "_CanonicalPrefixDefinition"
             THEN Return(self, definition.value)
             ELSE \* canonical_definition is looked up under `prefix` again:
                  \* it is the alias definition, and the assertion fails
                  LET canonical_definition == self._prefix_definitions[prefix]
                  IN  IF canonical_definition.class
                             = "_CanonicalPrefixDefinition"
                      THEN Return(self, canonical_definition.value)
                      ELSE Raise(self, "AssertionError")

\* the loop of _unit_root_value from the i-th item of unit
RECURSIVE RootValueFrom(_, _, _, _, _)
RootValueFrom(self, unit, i, root_magnitude, root_unit) ==
    IF i > Len(unit)
    THEN Return(self, Quantity(root_magnitude, root_unit))
    ELSE LET component == unit[i].component
             power == unit[i].power
             core == component.core
             prefixed == IF component.type = "str"
                         THEN Return(self, D(1))
                         ELSE _prefix_value(self, component.prefix)
         IN  IF prefixed.raised # "none"
             THEN prefixed
             ELSE IF core \notin DOMAIN self._unit_definitions
             THEN Raise(self, "KeyError")
             ELSE LET core_definition == self._unit_definitions[core]
                      prefix_value == prefixed.value
                  IN  IF core_definition.class = "_RootUnitDefinition"
                      THEN RootValueFrom(
                               self, unit, i + 1, root_magnitude,
                               _unit_multiply_power_in_place(
                                   root_unit, <<Item(Str(core), power)>>, D(1)))
                      ELSE IF core_definition.class # "_DerivedUnitDefinition"
                      THEN Raise(self, "AssertionError")
                      ELSE RootValueFrom(
                               self, unit, i + 1,
                               DecMul(DecMul(root_magnitude, prefix_value),
                                      core_definition.root_value.magnitude),
                               _unit_multiply_power_in_place(
                                   root_unit, core_definition.root_value.unit,
                                   power))

_unit_root_value(self, unit) == RootValueFrom(self, unit, 1, D(1), <<>>)

\* a define_derived_unit that stores the value as it is given
define_derived_unit_unreduced(self, unit, value) ==
    IF unit \in DOMAIN self._unit_definitions
    THEN Raise(self, "ValueError")
    ELSE LET value_unit_root_value == _unit_root_value(self, value.unit)
         IN  IF value_unit_root_value.raised # "none"
             THEN value_unit_root_value
             ELSE Return(
                 [self EXCEPT
                    !._unit_definitions =
                        DictSet(@, unit, _DerivedUnitDefinition(value))],
                 None)

define_derived_unit(self, unit, value) ==
    IF unit \in DOMAIN self._unit_definitions
    THEN Raise(self, "ValueError")
    ELSE LET value_unit_root_value == _unit_root_value(self, value.unit)
         IN  IF value_unit_root_value.raised # "none"
             THEN value_unit_root_value
             ELSE Return(
                 [self EXCEPT
                    !._unit_definitions =
                        DictSet(@, unit, _DerivedUnitDefinition(
                            Quantity(
                                DecMul(value.magnitude,
                                       value_unit_root_value.value.magnitude),
                                value_unit_root_value.value.unit)))],
                 None)

(***************************************************************************)
(* Quantity operations.                                                    *)
(***************************************************************************)
quantity_from_unit_name(self, unit_name) ==
    LET looked_up == _unit_lookup(self, unit_name)
    IN  IF looked_up.raised # "none"
        THEN looked_up
        ELSE Return(self, Quantity(D(1), looked_up.value))

\* a quantity_convert that multiplies by the magnitude of the target's
\* reduction
quantity_convert_multiplying(self, quantity, target_unit) ==
    LET source_unit_root_value == _unit_root_value(self, quantity.unit)
        target_unit_root_value == _unit_root_value(self, target_unit)
    IN  IF source_unit_root_value.raised # "none"
        THEN source_unit_root_value
        ELSE IF target_unit_root_value.raised # "none"
        THEN target_unit_root_value
        ELSE IF ~UnitEq(source_unit_root_value.value.unit,
                        target_unit_root_value.value.unit)
        THEN Raise(self, "ValueError")
        ELSE Return(self,
                 Quantity(DecMul(DecMul(quantity.magnitude,
                                        source_unit_root_value.value.magnitude),
                                 target_unit_root_value.value.magnitude),
                          target_unit))

quantity_convert(self, quantity, target_unit) ==
    LET source_unit_root_value == _unit_root_value(self, quantity.unit)
        target_unit_root_value == _unit_root_value(self, target_unit)
    IN  IF source_unit_root_value.raised # "none"
        THEN source_unit_root_value
        ELSE IF target_unit_root_value.raised # "none"
        THEN target_unit_root_value
        ELSE IF ~UnitEq(source_unit_root_value.value.unit,
                        target_unit_root_value.value.unit)
        THEN Raise(self, "ValueError")
        ELSE LET dividend == DecMul(quantity.magnitude,
                                    source_unit_root_value.value.magnitude)
                 divisor == target_unit_root_value.value.magnitude
             IN  IF divisor.n = 0
                 THEN Raise(self, IF dividend.n = 0
                                  THEN "InvalidOperation"
                                  ELSE "DivisionByZero")
                 ELSE Return(self, Quantity(DecDiv(dividend, divisor),
                                            target_unit))

quantity_negate(self, quantity) ==
    Return(self, Quantity(DecNeg(quantity.magnitude), quantity.unit))

\* a quantity_add that adds the magnitude y has in its own unit
quantity_add_unconverted(self, x, y) ==
    LET converted == quantity_convert(self, y, x.unit)
    IN  IF converted.raised # "none"
        THEN converted
        ELSE Return(self, Quantity(DecAdd(x.magnitude, y.magnitude), x.unit))

quantity_add(self, x, y) ==
    LET converted == quantity_convert(self, y, x.unit)
    IN  IF converted.raised # "none"
        THEN converted
        ELSE Return(self, Quantity(DecAdd(x.magnitude,
                                          converted.value.magnitude),
                                   x.unit))

quantity_subtract(self, x, y) ==
    LET converted == quantity_convert(self, y, x.unit)
    IN  IF converted.raised # "none"
        THEN converted
        ELSE Return(self, Quantity(DecSub(x.magnitude,
                                          converted.value.magnitude),
                                   x.unit))

quantity_multiply(self, x, y) ==
    LET result_unit == _unit_multiply_power_in_place(x.unit, y.unit, D(1))
    IN  Return(self, Quantity(DecMul(x.magnitude, y.magnitude), result_unit))

\* a quantity_divide that leaves the zero divisor to the Decimal division
quantity_divide_unchecked(self, x, y) ==
    LET result_unit == _unit_multiply_power_in_place(x.unit, y.unit, D(-1))
    IN  IF y.magnitude = D(0)
        THEN Raise(self, IF x.magnitude = D(0)
                         THEN "InvalidOperation"
                         ELSE "DivisionByZero")
        ELSE Return(self, Quantity(DecDiv(x.magnitude, y.magnitude),
                                   result_unit))

quantity_divide(self, x, y) ==
    LET result_unit == _unit_multiply_power_in_place(x.unit, y.unit, D(-1))
    IN  IF y.magnitude = D(0)
        THEN Raise(self, "ValueError")
        ELSE Return(self, Quantity(DecDiv(x.magnitude, y.magnitude),
                                   result_unit))

\* a quantity_exponentiate that raises the magnitude to the power zero too
quantity_exponentiate_always(self, x, y) ==
    LET y_unit_root_value == _unit_root_value(self, y.unit)
    IN  IF y_unit_root_value.raised # "none"
        THEN y_unit_root_value
        ELSE IF y_unit_root_value.value.unit # <<>>
        THEN Raise(self, "ValueError")
        ELSE LET y_root_magnitude ==
                     DecMul(y.magnitude, y_unit_root_value.value.magnitude)
             IN  IF y_root_magnitude = D(0) /\ x.magnitude = D(0)
                 THEN Raise(self, "InvalidOperation")
                 ELSE Return(self,
                          Quantity(DecPower(x.magnitude, y_root_magnitude),
                                   _unit_multiply_power_in_place(
                                       <<>>, x.unit, y_root_magnitude)))

quantity_exponentiate(self, x, y) ==
    LET y_unit_root_value == _unit_root_value(self, y.unit)
    IN  IF y_unit_root_value.raised # "none"
        THEN y_unit_root_value
        ELSE IF y_unit_root_value.value.unit # <<>>
        THEN Raise(self, "ValueError")
        ELSE LET y_root_magnitude ==
                     DecMul(y.magnitude, y_unit_root_value.value.magnitude)
             IN  IF y_root_magnitude = D(0)
                 THEN Return(self, Quantity(D(1), <<>>))
                 ELSE Return(self,
                          Quantity(DecPower(x.magnitude, y_root_magnitude),
                                   _unit_multiply_power_in_place(
                                       <<>>, x.unit, y_root_magnitude)))

\* str(x) of a Decimal written without an exponent and without a trailing
\* zero after the point: the digits of n/d, a point when d # 1, a sign
Digit(k) == SubSeq("0123456789", k + 1, k + 1)

RECURSIVE IntStr(_)
IntStr(k) == IF k < 10 THEN Digit(k) ELSE IntStr(k \div 10) \o Digit(k % 10)

RECURSIVE FractionStr(_, _)
\* the last `places` digits of f
FractionStr(f, places) ==
    IF places = 0 THEN ""
    ELSE FractionStr(f \div 10, places - 1) \o Digit(f % 10)

RECURSIVE PlacesFrom(_, _, _)
PlacesFrom(d, places, tens) ==
    IF tens % d = 0 THEN places ELSE PlacesFrom(d, places + 1, tens * 10)

DecStr(x) ==
    LET places == PlacesFrom(x.d, 0, 1)
        tens == 10 ^ places
        scaled == (Abs(x.n) * tens) \div x.d
    IN  (IF x.n < 0 THEN "-" ELSE "")
            \o IntStr(scaled \div tens)
            \o (IF places = 0 THEN ""
                ELSE "." \o FractionStr(scaled % tens, places))

\* dict.get(key, default) of a dict[str, str]
DictGet(dict, key, default) ==
    IF key \in DOMAIN dict THEN dict[key] ELSE default

\* " ".join(factors)
RECURSIVE Join(_)
Join(factors) ==
    IF Len(factors) = 0 THEN ""
    ELSE IF Len(factors) = 1 THEN factors[1]
    ELSE factors[1] \o " " \o Join(Tail(factors))

quantity_display_str(self, x) ==
    LET factor(i) ==
            LET component == x.unit[i].component
                power == x.unit[i].power
                symbol ==
                    IF component.type = "str"
                    THEN DictGet(self._units_to_symbols, component.core,
                                 component.core)
                    ELSE DictGet(self._prefixes_to_symbols, component.prefix,
                                 component.prefix)
                             \o DictGet(self._units_to_symbols,
                                        component.core, component.core)
            IN  IF power = D(1)
                THEN symbol
                ELSE symbol \o "^" \o DecStr(power)
    IN  Return(self,
               Join(<<DecStr(x.magnitude)>>
                        \o [i \in DOMAIN x.unit |-> factor(i)]))

(***************************************************************************)
(* The inputs of the calls.                                                *)
(***************************************************************************)
UnitNames == {"m", "s", "ms"}
PrefixNames == {"m", "mm"}
Dimensions == {"Length", "Time"}
\* the names that the alias definitions take as their targets
AliasTargets == {"m", "s"}
PrefixAliasTargets == {"mm"}
\* names to resolve: the bound names, their plurals and prefixed forms
QueryNames == {"s", "ms", "mms", "mss"}
\* the magnitude of a derived unit's defining value, the value of a prefix
Magnitudes == {D(5)}
PrefixValues == {D(10)}
\* the units of the values that define derived units, and of the reductions
ValueUnits ==
    {<<>>, <<Item(Str("s"), D(1))>>, <<Item(Str("m"), D(-1))>>,
     <<Item(Tuple("m", "s"), D(1))>>}
ValueQuantities == {Quantity(g, u) : g \in Magnitudes, u \in ValueUnits}
\* the components over the names, and the exponents up to MaxPower
Powers == {D(p) : p \in (-MaxPower .. MaxPower) \ {0}}
Components ==
    {Str(c) : c \in UnitNames}
        \cup {Tuple(p, c) : p \in PrefixNames, c \in UnitNames}

\* the units of the quantities to convert and of the targets: one and two
\* components, both orders, both signs, a prefixed component
ConvertUnits ==
    {<<>>, <<Item(Str("s"), D(1))>>, <<Item(Str("s"), D(-1))>>,
     <<Item(Str("m"), D(-1))>>, <<Item(Tuple("m", "s"), D(1))>>,
     <<Item(Str("ms"), D(1))>>,
     <<Item(Str("s"), D(1)), Item(Str("m"), D(-1))>>,
     <<Item(Str("m"), D(-1)), Item(Str("s"), D(1))>>}
ConvertQuantities == {Quantity(D(2), u) : u \in ConvertUnits}
\* the operands of the sums: x and y have different magnitudes
SumUnits ==
    {<<>>, <<Item(Str("s"), D(1))>>, <<Item(Str("s"), D(-1))>>,
     <<Item(Str("ms"), D(1))>>, <<Item(Tuple("m", "s"), D(1))>>,
     <<Item(Str("m"), D(-1)), Item(Str("s"), D(1))>>}
SumLeft == {Quantity(D(2), u) : u \in SumUnits}
SumRight == {Quantity(D(5), u) : u \in SumUnits}
\* the operands of the products and quotients: a unit and the same unit
\* with every exponent negated, in another order; a zero divisor
ProductUnits ==
    {<<>>, <<Item(Str("s"), D(2))>>,
     <<Item(Str("s"), D(1)), Item(Str("m"), D(-1))>>,
     <<Item(Str("m"), D(1)), Item(Str("s"), D(-1))>>}
ProductLeft ==
    {Quantity(D(2), u) :
        u \in {<<Item(Str("s"), D(2))>>,
               <<Item(Str("s"), D(1)), Item(Str("m"), D(-1))>>}}
ProductRight == {Quantity(g, u) : g \in {D(0), D(5)}, u \in ProductUnits}
\* the bases and the exponents of the powers: a zero base, a base with
\* units; zero, positive and negative exponents, plain and with units
Bases ==
    {Quantity(D(0), <<>>),
     Quantity(D(0), <<Item(Str("s"), D(1)), Item(Str("m"), D(-1))>>),
     Quantity(D(2), <<Item(Str("s"), D(1)), Item(Str("m"), D(-1))>>)}
ExponentUnits ==
    {<<>>, <<Item(Str("s"), D(1))>>, <<Item(Str("m"), D(-1))>>,
     <<Item(Tuple("m", "s"), D(1)), Item(Str("s"), D(-1))>>}
Exponents ==
    {Quantity(g, u) : g \in {D(0), D(1), D(-2)}, u \in ExponentUnits}
\* the units to reduce: those of the defining values, and a quotient
ReductionUnits ==
    ValueUnits \cup {<<Item(Str("ms"), D(1)), Item(Str("s"), D(-1))>>}

\* the quantities to display: a whole and a fractional magnitude; no unit,
\* one and two components, exponents 1 and not 1, a prefixed component
DisplayUnits ==
    {<<>>, <<Item(Str("m"), D(1))>>,
     <<Item(Str("s"), D(2)), Item(Str("m"), D(-1))>>,
     <<Item(Str("m"), D(-1)), Item(Str("s"), D(2))>>,
     <<Item(Tuple("mm", "m"), D(1)), Item(Str("s"), Decimal(1, 2))>>}
DisplayQuantities ==
    {Quantity(g, u) : g \in {D(12), Decimal(-5, 2)}, u \in DisplayUnits}

(***************************************************************************)
(* The state machine: one action per public call on the App.  result is    *)
(* the last call: its name, its arguments, the exception it raised and the *)
(* value it returned.                                                      *)
(***************************************************************************)
Size(self) == Cardinality(DOMAIN self._unit_definitions)
                  + Cardinality(DOMAIN self._prefix_definitions)

Call(op, args, outcome) ==
    /\ Size(outcome.self) <= MaxDefs
    /\ _unit_definitions' = outcome.self._unit_definitions
    /\ _dimensions_to_units' = outcome.self._dimensions_to_units
    /\ _units_to_symbols' = outcome.self._units_to_symbols
    /\ _prefix_definitions' = outcome.self._prefix_definitions
    /\ _prefixes_to_symbols' = outcome.self._prefixes_to_symbols
    /\ result' = [op |-> op, args |-> args, raised |-> outcome.raised,
                  value |-> outcome.value]

Init ==
    /\ _unit_definitions = EmptyDict
    /\ _dimensions_to_units = EmptyDict
    /\ _units_to_symbols = EmptyDict
    /\ _prefix_definitions = EmptyDict
    /\ _prefixes_to_symbols = EmptyDict
    /\ result = [op |-> "__init__", args |-> None, raised |-> "none",
                 value |-> None]

DefineRootUnit ==
    \E unit \in UnitNames, dimension \in Dimensions :
        Call("define_root_unit", [unit |-> unit, dimension |-> dimension],
             define_root_unit(App, unit, dimension))

DefineDerivedUnit ==
    \E unit \in UnitNames, value \in ValueQuantities :
        Call("define_derived_unit", [unit |-> unit, value |-> value],
             define_derived_unit(App, unit, value))

DefineUnitAlias ==
    \E alias \in UnitNames, canonical \in AliasTargets :
        Call("define_unit_alias", [alias |-> alias, canonical |-> canonical],
             define_unit_alias(App, alias, canonical))

DefineUnitSymbolAlias ==
    \E symbol \in UnitNames, canonical \in AliasTargets :
        Call("define_unit_symbol_alias",
             [symbol |-> symbol, canonical |-> canonical],
             define_unit_symbol_alias(App, symbol, canonical))

DefineCanonicalPrefix ==
    \E prefix \in PrefixNames, value \in PrefixValues :
        Call("define_canonical_prefix", [prefix |-> prefix, value |-> value],
             define_canonical_prefix(App, prefix, value))

DefinePrefixAlias ==
    \E alias \in PrefixNames, canonical \in PrefixAliasTargets :
        Call("define_prefix_alias", [alias |-> alias, canonical |-> canonical],
             define_prefix_alias(App, alias, canonical))

DefinePrefixSymbolAlias ==
    \E symbol \in PrefixNames, canonical \in PrefixAliasTargets :
        Call("define_prefix_symbol_alias",
             [symbol |-> symbol, canonical |-> canonical],
             define_prefix_symbol_alias(App, symbol, canonical))

QuantityFromUnitName ==
    \E unit_name \in QueryNames :
        Call("quantity_from_unit_name", [unit_name |-> unit_name],
             quantity_from_unit_name(App, unit_name))

UnitRootValue ==
    \E unit \in ReductionUnits :
        Call("_unit_root_value", [unit |-> unit], _unit_root_value(App, unit))

QuantityConvert ==
    \E quantity \in ConvertQuantities, target_unit \in ConvertUnits :
        Call("quantity_convert",
             [quantity |-> quantity, target_unit |-> target_unit],
             quantity_convert(App, quantity, target_unit))

QuantityNegate ==
    \E quantity \in SumRight :
        Call("quantity_negate", [quantity |-> quantity],
             quantity_negate(App, quantity))

QuantityAdd ==
    \E x \in SumLeft, y \in SumRight :
        Call("quantity_add", [x |-> x, y |-> y], quantity_add(App, x, y))

QuantitySubtract ==
    \E x \in SumLeft, y \in SumRight :
        Call("quantity_subtract", [x |-> x, y |-> y],
             quantity_subtract(App, x, y))

QuantityMultiply ==
    \E x \in ProductLeft, y \in ProductRight :
        Call("quantity_multiply", [x |-> x, y |-> y],
             quantity_multiply(App, x, y))

QuantityDivide ==
    \E x \in ProductLeft, y \in ProductRight :
        Call("quantity_divide", [x |-> x, y |-> y],
             quantity_divide(App, x, y))

\* (the effective exponents stay within MaxExponent)
QuantityExponentiate ==
    \E x \in Bases, y \in Exponents :
        /\ LET reduced == _unit_root_value(App, y.unit)
           IN  reduced.raised = "none" =>
                   LET e == DecMul(y.magnitude, reduced.value.magnitude)
                   IN  e.d = 1 /\ Abs(e.n) <= MaxExponent
        /\ Call("quantity_exponentiate", [x |-> x, y |-> y],
                quantity_exponentiate(App, x, y))

QuantityDisplayStr ==
    \E x \in DisplayQuantities :
        Call("quantity_display_str", [x |-> x], quantity_display_str(App, x))

Next ==
    \/ DefineRootUnit
    \/ DefineDerivedUnit
    \/ DefineUnitAlias
    \/ DefineUnitSymbolAlias
    \/ DefineCanonicalPrefix
    \/ DefinePrefixAlias
    \/ DefinePrefixSymbolAlias
    \/ QuantityFromUnitName
    \/ UnitRootValue

Spec == Init /\ [][Next]_vars

\* the definitions of the canonical units and prefixes: the ones that the
\* reduction of a unit accepts as components
Define ==
    \/ DefineRootUnit
    \/ DefineDerivedUnit
    \/ DefineCanonicalPrefix

\* the definitions and the conversions
NextConvert ==
    \/ Define
    \/ QuantityConvert

SpecConvert == Init /\ [][NextConvert]_vars

\* the definitions, the sums and the negation
NextSum ==
    \/ Define
    \/ QuantityNegate
    \/ QuantityAdd
    \/ QuantitySubtract

SpecSum == Init /\ [][NextSum]_vars

\* the definitions, the products, the powers and the reductions
NextProduct ==
    \/ Define
    \/ QuantityMultiply
    \/ QuantityDivide
    \/ QuantityExponentiate
    \/ UnitRootValue

SpecProduct == Init /\ [][NextProduct]_vars

\* every definition, and the display of a quantity
NextDisplay ==
    \/ DefineRootUnit
    \/ DefineDerivedUnit
    \/ DefineUnitAlias
    \/ DefineUnitSymbolAlias
    \/ DefineCanonicalPrefix
    \/ DefinePrefixAlias
    \/ DefinePrefixSymbolAlias
    \/ QuantityDisplayStr

SpecDisplay == Init /\ [][NextDisplay]_vars

(***************************************************************************)
(* Vocabulary of the properties.                                           *)
(***************************************************************************)
\* every nonempty name over the letters m and s, up to MaxNameLen letters
RECURSIVE NamesOfLen(_)
NamesOfLen(k) ==
    IF k = 0 THEN {""}
    ELSE {n \o letter : n \in NamesOfLen(k - 1), letter \in {"m", "s"}}
Names == UNION {NamesOfLen(k) : k \in 1 .. MaxNameLen}

Head_(name, k) == SubSeq(name, 1, k)
Tail_(name, k) == SubSeq(name, k + 1, Len(name))

BoundUnits == DOMAIN _unit_definitions
BoundPrefixes == DOMAIN _prefix_definitions
IsAlias(name) == _unit_definitions[name].class = "_UnitAliasDefinition"
IsRoot(name) == _unit_definitions[name].class = "_RootUnitDefinition"
IsDerived(name) == _unit_definitions[name].class = "_DerivedUnitDefinition"
IsCanonicalPrefix(name) ==
    _prefix_definitions[name].class = "_CanonicalPrefixDefinition"

\* the lengths k for which name is a bound prefix of k letters followed by a
\* bound unit
Splits(name) ==
    {k \in 1 .. Len(name) - 1 :
        /\ Head_(name, k) \in BoundPrefixes
        /\ Tail_(name, k) \in BoundUnits}
ShortestSplit(name) ==
    CHOOSE k \in Splits(name) : \A j \in Splits(name) : k <= j
HasExact(name) == name \in BoundUnits
HasPrefixed(name) == Splits(name) # {}
HasInterpretation(name) == HasExact(name) \/ HasPrefixed(name)

\* the canonical unit a bound unit name denotes: the end of its alias chain
\* (the chain is followed for at most `fuel` aliases; "" when it does not
\* end in a canonical unit)
RECURSIVE CanonicalUnitIn(_, _)
CanonicalUnitIn(name, fuel) ==
    IF name \notin BoundUnits THEN ""
    ELSE IF ~IsAlias(name) THEN name
    ELSE IF fuel = 0 THEN ""
    ELSE CanonicalUnitIn(_unit_definitions[name].canonical, fuel - 1)
CanonicalUnit(name) == CanonicalUnitIn(name, Cardinality(BoundUnits))

RECURSIVE CanonicalPrefixIn(_, _)
CanonicalPrefixIn(name, fuel) ==
    IF name \notin BoundPrefixes THEN ""
    ELSE IF IsCanonicalPrefix(name) THEN name
    ELSE IF fuel = 0 THEN ""
    ELSE CanonicalPrefixIn(_prefix_definitions[name].canonical, fuel - 1)
CanonicalPrefix(name) == CanonicalPrefixIn(name, Cardinality(BoundPrefixes))

\* the quantity of magnitude 1 of one component with exponent 1
One(component) == Quantity(D(1), <<Item(component, D(1))>>)

Resolve(name) == quantity_from_unit_name(App, name)

(***************************************************************************)
(* C1: in every reachable registry, a unit-defining call whose new name is *)
(* already bound in the unit namespace raises an error, and so does a      *)
(* prefix-defining call whose new name is bound in the prefix namespace;   *)
(* the call leaves the registry, hence the existing binding, unchanged.    *)
(***************************************************************************)
C1_RedefinitionFails ==
    /\ \A name \in BoundUnits :
          /\ \A dimension \in Dimensions :
                define_root_unit(App, name, dimension)
                    = Raise(App, "ValueError")
          /\ \A value \in ValueQuantities :
                define_derived_unit(App, name, value)
                    = Raise(App, "ValueError")
          /\ \A canonical \in UnitNames :
                /\ define_unit_alias(App, name, canonical)
                       = Raise(App, "ValueError")
                /\ define_unit_symbol_alias(App, name, canonical)
                       = Raise(App, "ValueError")
    /\ \A name \in BoundPrefixes :
          /\ \A value \in PrefixValues :
                define_canonical_prefix(App, name, value)
                    = Raise(App, "ValueError")
          /\ \A canonical \in PrefixNames :
                /\ define_prefix_alias(App, name, canonical)
                       = Raise(App, "ValueError")
                /\ define_prefix_symbol_alias(App, name, canonical)
                       = Raise(App, "ValueError")

\* a symbol alias was refused for a name bound as a derived unit, while a
\* root unit, an alias and a prefix are bound too
C1_Witness ==
    /\ result.op = "define_unit_symbol_alias"
    /\ result.raised = "ValueError"
    /\ result.args.symbol \in BoundUnits
    /\ IsDerived(result.args.symbol)
    /\ \E name \in BoundUnits : IsAlias(name)
    /\ BoundPrefixes # {}

(***************************************************************************)
(* C2: every dimension is owned by at most one root unit: no two root      *)
(* units carry the same dimension, the dimension-to-unit map holds exactly *)
(* the root units under their dimensions, and define_root_unit raises an   *)
(* error for a dimension that has an owner, also for an unbound name.      *)
(***************************************************************************)
C2_DimensionHasOneOwner ==
    /\ \A n1 \in BoundUnits, n2 \in BoundUnits :
          (/\ IsRoot(n1) /\ IsRoot(n2)
           /\ _unit_definitions[n1].dimension = _unit_definitions[n2].dimension)
              => n1 = n2
    /\ \A name \in BoundUnits :
          IsRoot(name) =>
              /\ _unit_definitions[name].dimension
                     \in DOMAIN _dimensions_to_units
              /\ _dimensions_to_units[_unit_definitions[name].dimension] = name
    /\ \A dimension \in DOMAIN _dimensions_to_units :
          /\ _dimensions_to_units[dimension] \in BoundUnits
          /\ IsRoot(_dimensions_to_units[dimension])
          /\ _unit_definitions[_dimensions_to_units[dimension]].dimension
                 = dimension
    /\ \A dimension \in DOMAIN _dimensions_to_units, name \in UnitNames :
          define_root_unit(App, name, dimension) = Raise(App, "ValueError")

\* both dimensions are owned, and a root unit of an unbound name was refused
C2_Witness ==
    /\ result.op = "define_root_unit"
    /\ result.raised = "ValueError"
    /\ result.args.unit \notin BoundUnits
    /\ DOMAIN _dimensions_to_units = Dimensions

(***************************************************************************)
(* C3: a name that is not bound in the unit namespace and splits into a    *)
(* bound prefix followed by a bound unit resolves to the one component     *)
(* (canonical prefix, canonical core) of the split with the shortest       *)
(* prefix, with exponent 1, in every registry the definitions reach.       *)
(***************************************************************************)
C3_ShortestPrefixSplit ==
    \A name \in Names :
        (/\ ~HasExact(name)
         /\ HasPrefixed(name)
         /\ CanonicalPrefix(Head_(name, ShortestSplit(name))) # ""
         /\ CanonicalUnit(Tail_(name, ShortestSplit(name))) # "")
            => Resolve(name)
                   = Return(App,
                         One(Tuple(
                             CanonicalPrefix(Head_(name, ShortestSplit(name))),
                             CanonicalUnit(Tail_(name, ShortestSplit(name))))))

(***************************************************************************)
(* C4: a name bound in the unit namespace resolves to the one unprefixed   *)
(* component of its binding (the name itself for a root or derived unit,   *)
(* the unit an alias names for an alias) with exponent 1, whatever splits  *)
(* of the name into a prefix and a unit exist, and resolves to the same    *)
(* quantity in every later state.                                          *)
(***************************************************************************)
BindingUnit(name) ==
    IF IsAlias(name) THEN _unit_definitions[name].canonical ELSE name

ExactMatchWins ==
    \A name \in BoundUnits :
        Resolve(name) = Return(App, One(Str(BindingUnit(name))))

\* (a step that leaves the registry as it is changes no resolution)
ExactMatchStays ==
    \/ App' = App
    \/ \A name \in BoundUnits :
           quantity_from_unit_name(App', name) = Return(App', Resolve(name).value)

\* C4: a bound name resolves to the unprefixed unit of its binding, in the
\* state that binds it and in every later one
C4_ExactMatchAlwaysWins == []ExactMatchWins /\ [][ExactMatchStays]_vars

\* "ms" is bound and is also the prefix "m" followed by the unit "s"; it was
\* resolved, to an unprefixed component
C4_Witness ==
    /\ result.op = "quantity_from_unit_name"
    /\ result.args.unit_name = "ms"
    /\ HasExact("ms")
    /\ Splits("ms") = {1}
    /\ result.raised = "none"
    /\ result.value.unit[1].component.type = "str"

(***************************************************************************)
(* C5: when a name n has an exact or a prefixed interpretation and n+"s"   *)
(* has neither, n+"s" resolves to what n resolves to.                      *)
(***************************************************************************)
C5_PluralFallback ==
    \A name \in Names :
        (/\ name \o "s" \in Names
         /\ HasInterpretation(name)
         /\ ~HasInterpretation(name \o "s"))
            => /\ Resolve(name \o "s").raised = "none"
               /\ Resolve(name \o "s").value = Resolve(name).value

(***************************************************************************)
(* C6: a name fails to resolve, with the unknown-unit error, when neither  *)
(* the name nor the name less one trailing "s" has an exact or a prefixed  *)
(* interpretation, also when stripping more than one "s" would leave a     *)
(* bound unit.                                                             *)
(***************************************************************************)
EndsInS(name) == Len(name) > 1 /\ Tail_(name, Len(name) - 1) = "s"
LessOneS(name) == Head_(name, Len(name) - 1)

\* C6: no interpretation of the name or of the name less one "s": the
\* resolution raises ValueError
C6_OnlyOneSStripped ==
    \A name \in Names :
        (/\ ~HasInterpretation(name)
         /\ EndsInS(name) => ~HasInterpretation(LessOneS(name)))
            => Resolve(name) = Raise(App, "ValueError")

\* "mss" was resolved and failed, while "m" is a bound unit and "ms" has no
\* interpretation
C6_Witness ==
    /\ result.op = "quantity_from_unit_name"
    /\ result.args.unit_name = "mss"
    /\ result.raised = "ValueError"
    /\ HasExact("m")
    /\ ~HasInterpretation("ms")
    /\ ~HasInterpretation("mss")

(***************************************************************************)
(* C7: every name of a chain of unit aliases that ends in a canonical      *)
(* (root or derived) unit c resolves to the unit {c: 1}.                   *)
(***************************************************************************)
C7_AliasChainResolvesToCanonical ==
    \A name \in BoundUnits :
        CanonicalUnit(name) # ""
            => Resolve(name) = Return(App, One(Str(CanonicalUnit(name))))

(***************************************************************************)
(* C8: define_unit_alias succeeds only for a target that is bound in the   *)
(* unit namespace when it is called, so every alias of a reachable         *)
(* registry names a bound unit; it succeeds for an unbound name whose      *)
(* target is an alias.                                                     *)
(***************************************************************************)
C8_AliasTargetIsBound ==
    /\ (result.op = "define_unit_alias" /\ result.raised = "none")
           => result.args.canonical \in BoundUnits \ {result.args.alias}
    /\ \A name \in BoundUnits :
           IsAlias(name) => _unit_definitions[name].canonical \in BoundUnits
    /\ \A alias \in UnitNames \ BoundUnits, canonical \in BoundUnits :
           IsAlias(canonical)
               => define_unit_alias(App, alias, canonical).raised = "none"

(***************************************************************************)
(* C9: the root reduction of a component with a derived core and the       *)
(* exponent p has the magnitude (prefix value x the core's stored root     *)
(* magnitude) to the power p and the core's root vector with every         *)
(* exponent multiplied by p.                                               *)
(***************************************************************************)
ScaledUnit(unit, p) ==
    [i \in DOMAIN unit |-> Item(unit[i].component, DecMul(unit[i].power, p))]

PrefixValueOf(component) ==
    IF component.type = "str"
    THEN D(1)
    ELSE _prefix_definitions[component.prefix].value

\* the components the reduction accepts: a bound canonical core, under a
\* bound canonical prefix or none
Reducible(component) ==
    /\ component.core \in BoundUnits
    /\ ~IsAlias(component.core)
    /\ component.type = "tuple" =>
           /\ component.prefix \in BoundPrefixes
           /\ IsCanonicalPrefix(component.prefix)

\* C9: the reduction of (component with a derived core)^p is
\* ((prefix value x root magnitude)^p, root vector x p)
C9_DerivedComponentReduction ==
    \A component \in Components, p \in Powers :
        (Reducible(component) /\ IsDerived(component.core)) =>
            LET root_value == _unit_definitions[component.core].root_value
            IN  _unit_root_value(App, <<Item(component, p)>>)
                    = Return(App,
                          Quantity(
                              DecPow(DecMul(PrefixValueOf(component),
                                            root_value.magnitude), p.n),
                              ScaledUnit(root_value.unit, p)))

(***************************************************************************)
(* C10: the root reduction of a prefixed component whose core is a root    *)
(* unit r, with the exponent p, has the magnitude (prefix value) to the    *)
(* power p and the vector {r: p}; so a quantity g of (prefix, r) converts  *)
(* to g x prefix value of r.                                               *)
(***************************************************************************)
C10_PrefixedRootComponentReduction ==
    \A component \in Components, p \in Powers :
        (/\ component.type = "tuple"
         /\ Reducible(component)
         /\ IsRoot(component.core)) =>
            /\ _unit_root_value(App, <<Item(component, p)>>)
                   = Return(App,
                         Quantity(DecPow(PrefixValueOf(component), p.n),
                                  <<Item(Str(component.core), p)>>))
            /\ \A g \in Magnitudes :
                   quantity_convert(App, Quantity(g, <<Item(component, D(1))>>),
                                    <<Item(Str(component.core), D(1))>>)
                       = Return(App,
                             Quantity(DecMul(g, PrefixValueOf(component)),
                                      <<Item(Str(component.core), D(1))>>))

(***************************************************************************)
(* The root reduction as the properties state it: the magnitude of a unit  *)
(* is the product over its components of (prefix value x root magnitude of *)
(* the core) to the power of the component's exponent, a root unit having  *)
(* the root magnitude 1; its vector maps every root unit to the sum of the *)
(* exponents it gets, and leaves out the root units whose sum is zero.     *)
(***************************************************************************)
ReducibleUnit(unit) == \A i \in DOMAIN unit : Reducible(unit[i].component)

ComponentMag(component) ==
    IF IsRoot(component.core)
    THEN PrefixValueOf(component)
    ELSE DecMul(PrefixValueOf(component),
                _unit_definitions[component.core].root_value.magnitude)

ComponentVector(component) ==
    IF IsRoot(component.core)
    THEN <<Item(Str(component.core), D(1))>>
    ELSE _unit_definitions[component.core].root_value.unit

RECURSIVE RootMagFrom(_, _)
RootMagFrom(unit, i) ==
    IF i > Len(unit) THEN D(1)
    ELSE DecMul(DecPow(ComponentMag(unit[i].component), unit[i].power.n),
                RootMagFrom(unit, i + 1))
\* (for a unit whose exponents are integers)
RootMag(unit) == RootMagFrom(unit, 1)

RECURSIVE RootExponentFrom(_, _, _)
RootExponentFrom(unit, root, i) ==
    IF i > Len(unit) THEN D(0)
    ELSE DecAdd(DecMul(unit[i].power,
                       UnitGet(ComponentVector(unit[i].component),
                               Str(root), D(0))),
                RootExponentFrom(unit, root, i + 1))

RootVector(unit) ==
    LET roots == {r \in BoundUnits : IsRoot(r)}
    IN  [r \in {q \in roots : RootExponentFrom(unit, q, 1) # D(0)}
            |-> RootExponentFrom(unit, r, 1)]

\* a _Unit as a mapping: what its comparison as a dict looks at
AsMapping(unit) ==
    [c \in UnitKeys(unit) |-> UnitGet(unit, c, D(0))]

(***************************************************************************)
(* C11: a conversion of a quantity q to a target unit, both reducible,     *)
(* raises the dimension-mismatch error (ValueError) exactly when the root  *)
(* vectors of q.unit and of the target differ as mappings, and otherwise   *)
(* returns the quantity of the target unit and of the magnitude            *)
(* q.magnitude x RootMag(q.unit) / RootMag(target).                        *)
(***************************************************************************)
C11_ConvertChecksDimensionAndScales ==
    (/\ result.op = "quantity_convert"
     /\ ReducibleUnit(result.args.quantity.unit)
     /\ ReducibleUnit(result.args.target_unit)) =>
        LET quantity == result.args.quantity
            target_unit == result.args.target_unit
        IN  IF RootVector(quantity.unit) # RootVector(target_unit)
            THEN result.raised = "ValueError"
            ELSE /\ result.raised = "none"
                 /\ result.value
                        = Quantity(DecDiv(DecMul(quantity.magnitude,
                                                 RootMag(quantity.unit)),
                                          RootMag(target_unit)),
                                   target_unit)

\* the part of C11 that is about the error alone
ConvertRaisesOnMismatchOnly ==
    (/\ result.op = "quantity_convert"
     /\ ReducibleUnit(result.args.quantity.unit)
     /\ ReducibleUnit(result.args.target_unit)) =>
        (result.raised = "ValueError"
            <=> RootVector(result.args.quantity.unit)
                    # RootVector(result.args.target_unit))

(***************************************************************************)
(* C12: for a quantity q of a unit u and a unit v of the same root vector  *)
(* (both reducible), the conversion of q to v returns, and the conversion  *)
(* of what it returns back to u returns q: the magnitude of q and the unit *)
(* u; in every registry the definitions reach, whatever the chain of       *)
(* derived units that defines a unit.                                      *)
(***************************************************************************)
C12_ConversionRoundTrips ==
    (/\ result.op = "quantity_convert"
     /\ ReducibleUnit(result.args.quantity.unit)
     /\ ReducibleUnit(result.args.target_unit)
     /\ RootVector(result.args.quantity.unit)
            = RootVector(result.args.target_unit)) =>
        /\ result.raised = "none"
        /\ quantity_convert(App, result.value, result.args.quantity.unit)
               = Return(App, result.args.quantity)

\* 2 ms was converted to 50 s^-1, where ms is defined as 5 m^-1 and m as
\* 5 s: the stored root value of ms is 25 s^-1
C12_Witness ==
    /\ result.op = "quantity_convert"
    /\ result.raised = "none"
    /\ result.args.quantity = Quantity(D(2), <<Item(Str("ms"), D(1))>>)
    /\ result.args.target_unit = <<Item(Str("s"), D(-1))>>
    /\ result.value = Quantity(D(50), <<Item(Str("s"), D(-1))>>)
    /\ "ms" \in BoundUnits /\ IsDerived("ms")
    /\ "m" \in BoundUnits /\ IsDerived("m")
    /\ "s" \in BoundUnits /\ IsRoot("s")
    /\ _unit_definitions["ms"].root_value
           = Quantity(D(25), <<Item(Str("s"), D(-1))>>)

(***************************************************************************)
(* C13: a sum or a difference of x and y (of reducible units) raises the   *)
(* dimension-mismatch error (ValueError) when the root vectors of x.unit   *)
(* and y.unit differ; otherwise it returns the quantity of the unit x.unit *)
(* as x gives it, of the magnitude x.magnitude plus (minus) the magnitude  *)
(* of the conversion of y to x.unit.                                       *)
(***************************************************************************)
C13_SumInLeftUnit ==
    (/\ result.op \in {"quantity_add", "quantity_subtract"}
     /\ ReducibleUnit(result.args.x.unit)
     /\ ReducibleUnit(result.args.y.unit)) =>
        LET x == result.args.x
            y == result.args.y
            converted == quantity_convert(App, y, x.unit)
        IN  IF RootVector(x.unit) # RootVector(y.unit)
            THEN result.raised = "ValueError"
            ELSE /\ converted.raised = "none"
                 /\ result.raised = "none"
                 /\ result.value.unit = x.unit
                 /\ result.value.magnitude
                        = IF result.op = "quantity_add"
                          THEN DecAdd(x.magnitude, converted.value.magnitude)
                          ELSE DecSub(x.magnitude, converted.value.magnitude)

\* 5 s was subtracted from 2 ms, where ms is the derived unit 5 s: the
\* difference is 1 ms, in the unit of x and not in the root unit s
C13_Witness ==
    /\ result.op = "quantity_subtract"
    /\ result.args.x = Quantity(D(2), <<Item(Str("ms"), D(1))>>)
    /\ result.args.y = Quantity(D(5), <<Item(Str("s"), D(1))>>)
    /\ "s" \in BoundUnits /\ IsRoot("s")
    /\ "ms" \in BoundUnits /\ IsDerived("ms")
    /\ result.raised = "none"
    /\ result.value = Quantity(D(1), <<Item(Str("ms"), D(1))>>)

(***************************************************************************)
(* C14: the operands having no zero exponent, the unit of every product,   *)
(* quotient and power and of every root reduction has no zero exponent,    *)
(* and so has the root value stored for a derived unit; the product of a   *)
(* quantity and a quantity of the same unit with every exponent negated    *)
(* has the empty unit.                                                     *)
(***************************************************************************)
NoZeroExponent(unit) == \A i \in DOMAIN unit : unit[i].power # D(0)

\* unit2 is unit1 with every exponent negated, in any order
Negated(unit1, unit2) ==
    /\ UnitKeys(unit1) = UnitKeys(unit2)
    /\ \A c \in UnitKeys(unit1) :
           UnitGet(unit2, c, D(0)) = DecNeg(UnitGet(unit1, c, D(0)))

C14_NoZeroExponent ==
    /\ (/\ result.op \in {"quantity_multiply", "quantity_divide",
                          "quantity_exponentiate"}
        /\ result.raised = "none"
        /\ NoZeroExponent(result.args.x.unit)
        /\ NoZeroExponent(result.args.y.unit))
           => NoZeroExponent(result.value.unit)
    /\ (/\ result.op = "_unit_root_value"
        /\ result.raised = "none"
        /\ NoZeroExponent(result.args.unit))
           => NoZeroExponent(result.value.unit)
    /\ \A name \in BoundUnits :
           IsDerived(name)
               => NoZeroExponent(_unit_definitions[name].root_value.unit)
    /\ (/\ result.op = "quantity_multiply"
        /\ Negated(result.args.x.unit, result.args.y.unit))
           => result.raised = "none" /\ result.value.unit = <<>>

\* 2 s m^-1 was multiplied by 5 m s^-1: the product is the plain number 10
C14_Witness ==
    /\ result.op = "quantity_multiply"
    /\ Len(result.args.x.unit) = 2
    /\ Negated(result.args.x.unit, result.args.y.unit)
    /\ result.args.x.unit[1].component # result.args.y.unit[1].component
    /\ result.value = Quantity(D(10), <<>>)

(***************************************************************************)
(* C15: a division by a quantity of the magnitude zero raises the          *)
(* divide-by-zero error (ValueError), whatever the units of x and y; any   *)
(* other division returns the magnitude x.magnitude / y.magnitude and the  *)
(* unit that maps every component to its exponent in x.unit minus its      *)
(* exponent in y.unit, the components of the difference zero left out.     *)
(***************************************************************************)
QuotientExponent(x, y, c) ==
    DecSub(UnitGet(x.unit, c, D(0)), UnitGet(y.unit, c, D(0)))

C15_DivideChecksZero ==
    result.op = "quantity_divide" =>
        LET x == result.args.x
            y == result.args.y
        IN  IF y.magnitude = D(0)
            THEN result.raised = "ValueError"
            ELSE /\ result.raised = "none"
                 /\ result.value.magnitude = DecDiv(x.magnitude, y.magnitude)
                 /\ AsMapping(result.value.unit)
                        = [c \in {k \in UnitKeys(x.unit) \cup UnitKeys(y.unit) :
                                    QuotientExponent(x, y, k) # D(0)}
                              |-> QuotientExponent(x, y, c)]
                 /\ Len(result.value.unit)
                        = Cardinality(UnitKeys(result.value.unit))

\* 2 s m^-1 was divided by 0 s m^-1, whose unit cancels that of x: the
\* division raised ValueError
C15_Witness ==
    /\ result.op = "quantity_divide"
    /\ result.args.y.magnitude = D(0)
    /\ Len(result.args.x.unit) = 2
    /\ result.args.y.unit = result.args.x.unit
    /\ result.raised = "ValueError"

(***************************************************************************)
(* C16: a power whose exponent y is dimensionless (its unit is reducible   *)
(* and has the empty root vector) and has the effective value              *)
(* y.magnitude x RootMag(y.unit) = 0 is the quantity of the magnitude 1    *)
(* and the empty unit, for every base: of the magnitude zero, with units.  *)
(***************************************************************************)
Dimensionless(unit) ==
    ReducibleUnit(unit) /\ DOMAIN RootVector(unit) = {}

C16_PowerZeroIsOne ==
    (/\ result.op = "quantity_exponentiate"
     /\ Dimensionless(result.args.y.unit)
     /\ DecMul(result.args.y.magnitude, RootMag(result.args.y.unit)) = D(0))
        => /\ result.raised = "none"
           /\ result.value = Quantity(D(1), <<>>)

\* 0 s m^-1 was raised to the power 0 of a unit that is not empty and is
\* dimensionless: the power is the plain number 1
C16_Witness ==
    /\ result.op = "quantity_exponentiate"
    /\ result.args.x.magnitude = D(0)
    /\ result.args.x.unit # <<>>
    /\ result.args.y.magnitude = D(0)
    /\ result.args.y.unit # <<>>
    /\ Dimensionless(result.args.y.unit)
    /\ result.raised = "none"
    /\ result.value = Quantity(D(1), <<>>)

(***************************************************************************)
(* C17: a power whose exponent y has a reducible unit raises the           *)
(* non-dimensionless-exponent error (ValueError) exactly when the root     *)
(* vector of y.unit is not empty; an exponent of a dimensionless derived   *)
(* unit is accepted; for an effective exponent                             *)
(* e = y.magnitude x RootMag(y.unit) other than zero the power has every   *)
(* exponent of x.unit multiplied by e and the magnitude x.magnitude to the *)
(* power e.                                                                *)
(***************************************************************************)
EffectiveExponent(y) == DecMul(y.magnitude, RootMag(y.unit))

C17_PowerOfDimensionlessExponent ==
    (/\ result.op = "quantity_exponentiate"
     /\ ReducibleUnit(result.args.y.unit)) =>
        LET x == result.args.x
            y == result.args.y
            e == EffectiveExponent(y)
        IN  IF ~Dimensionless(y.unit)
            THEN result.raised = "ValueError"
            ELSE /\ result.raised = "none"
                 /\ e # D(0) =>
                        /\ result.value.unit = ScaledUnit(x.unit, e)
                        /\ (e.d = 1 /\ Abs(e.n) <= MaxExponent) =>
                               result.value.magnitude
                                   = DecPower(x.magnitude, e)

\* the part of C17 that is about the error alone
ExponentiateRaisesOnDimensionOnly ==
    (/\ result.op = "quantity_exponentiate"
     /\ ReducibleUnit(result.args.y.unit)) =>
        (result.raised = "ValueError" <=> ~Dimensionless(result.args.y.unit))

(***************************************************************************)
(* C18: define_canonical_prefix of an unbound prefix raises an error when  *)
(* the root reduction of its value (of a reducible unit) has a vector that *)
(* is not empty, and returns when the value is a plain number or has a     *)
(* dimensionless unit; every canonical prefix of a reachable registry has  *)
(* a plain number, with no unit, as its stored value.                      *)
(***************************************************************************)
IsScalar(value) == DOMAIN value = {"n", "d"}

C18_PrefixValueIsDimensionless ==
    /\ \A prefix \in PrefixNames \ BoundPrefixes,
          value \in ValueQuantities \cup PrefixValues :
           LET defined == define_canonical_prefix(App, prefix, value)
           IN  IF IsScalar(value)
               THEN defined.raised = "none"
               ELSE ReducibleUnit(value.unit) =>
                        IF Dimensionless(value.unit)
                        THEN defined.raised = "none"
                        ELSE /\ defined.raised # "none"
                             /\ defined.self = App
    /\ \A prefix \in BoundPrefixes :
           IsCanonicalPrefix(prefix)
               => IsScalar(_prefix_definitions[prefix].value)

(***************************************************************************)
(* C19: define_unit_symbol_alias (define_prefix_symbol_alias) of an        *)
(* unbound symbol raises an error when the canonical unit (prefix) that    *)
(* the target denotes, by its own name or through aliases, has a symbol;   *)
(* so every canonical unit and every canonical prefix of a reachable       *)
(* registry has at most one symbol.                                        *)
(***************************************************************************)
UnitSymbols(canonical) ==
    {_units_to_symbols[k] :
        k \in {t \in DOMAIN _units_to_symbols : CanonicalUnit(t) = canonical}}
PrefixSymbols(canonical) ==
    {_prefixes_to_symbols[k] :
        k \in {t \in DOMAIN _prefixes_to_symbols :
                  CanonicalPrefix(t) = canonical}}

C19_AtMostOneSymbol ==
    /\ \A symbol \in Names \ BoundUnits, target \in BoundUnits :
           (/\ CanonicalUnit(target) # ""
            /\ UnitSymbols(CanonicalUnit(target)) # {})
               => define_unit_symbol_alias(App, symbol, target).raised
                      # "none"
    /\ \A symbol \in Names \ BoundPrefixes, target \in BoundPrefixes :
           (/\ CanonicalPrefix(target) # ""
            /\ PrefixSymbols(CanonicalPrefix(target)) # {})
               => define_prefix_symbol_alias(App, symbol, target).raised
                      # "none"
    /\ \A name \in BoundUnits :
           ~IsAlias(name) => Cardinality(UnitSymbols(name)) <= 1
    /\ \A name \in BoundPrefixes :
           IsCanonicalPrefix(name) => Cardinality(PrefixSymbols(name)) <= 1

\* the part of C19 about a target given by its canonical name
SymbolOfCanonicalNameIsUnique ==
    /\ \A symbol \in Names, target \in DOMAIN _units_to_symbols :
           define_unit_symbol_alias(App, symbol, target).raised # "none"
    /\ \A symbol \in Names, target \in DOMAIN _prefixes_to_symbols :
           define_prefix_symbol_alias(App, symbol, target).raised # "none"

(***************************************************************************)
(* C20: a definition that raises an error leaves the registry as it was    *)
(* before the call: the unit definitions, the owners of the dimensions,    *)
(* the unit symbols, the prefix definitions and the prefix symbols; a      *)
(* symbol alias that raises because its target has a symbol does not bind  *)
(* the symbol.                                                             *)
(***************************************************************************)
Unchanged(outcome) == outcome.raised # "none" => outcome.self = App

C20_FailureChangesNothing ==
    /\ \A unit \in UnitNames :
           /\ \A dimension \in Dimensions :
                  Unchanged(define_root_unit(App, unit, dimension))
           /\ \A value \in ValueQuantities :
                  Unchanged(define_derived_unit(App, unit, value))
           /\ \A canonical \in UnitNames :
                  /\ Unchanged(define_unit_alias(App, unit, canonical))
                  /\ Unchanged(define_unit_symbol_alias(App, unit, canonical))
    /\ \A prefix \in PrefixNames :
           /\ \A value \in PrefixValues :
                  Unchanged(define_canonical_prefix(App, prefix, value))
           /\ \A canonical \in PrefixNames :
                  /\ Unchanged(define_prefix_alias(App, prefix, canonical))
                  /\ Unchanged(define_prefix_symbol_alias(App, prefix,
                                                          canonical))

\* the part of C20 about the definitions that are not symbol aliases
PlainDefinitionFailureChangesNothing ==
    /\ \A unit \in UnitNames :
           /\ \A dimension \in Dimensions :
                  Unchanged(define_root_unit(App, unit, dimension))
           /\ \A value \in ValueQuantities :
                  Unchanged(define_derived_unit(App, unit, value))
           /\ \A canonical \in UnitNames :
                  Unchanged(define_unit_alias(App, unit, canonical))
    /\ \A prefix \in PrefixNames :
           /\ \A value \in PrefixValues :
                  Unchanged(define_canonical_prefix(App, prefix, value))
           /\ \A canonical \in PrefixNames :
                  Unchanged(define_prefix_alias(App, prefix, canonical))

(***************************************************************************)
(* C21: the display string of a quantity whose components name canonical   *)
(* units and prefixes is the text of its magnitude and then, in the order  *)
(* of the unit and after one space each, one factor per component: the     *)
(* symbol registered for the component's unit, or the unit's name when it  *)
(* has no symbol, after the symbol or name of the prefix for a prefixed    *)
(* component; bare for the exponent 1, followed by "^" and the text of the *)
(* exponent otherwise.  The empty unit displays as the magnitude alone.    *)
(***************************************************************************)
UnitTexts(core) ==
    IF UnitSymbols(core) # {} THEN UnitSymbols(core) ELSE {core}
PrefixTexts(prefix) ==
    IF PrefixSymbols(prefix) # {} THEN PrefixSymbols(prefix) ELSE {prefix}

\* the texts of the factor of one item of a unit
FactorTexts(item) ==
    {(IF item.component.type = "str" THEN "" ELSE p) \o u
         \o (IF item.power = D(1) THEN "" ELSE "^" \o DecStr(item.power)) :
        p \in PrefixTexts(item.component.prefix),
        u \in UnitTexts(item.component.core)}

\* the display strings of a quantity, as the property states them
DisplayTexts(x) ==
    {Join(<<DecStr(x.magnitude)>> \o factors) :
        factors \in {f \in [DOMAIN x.unit ->
                                UNION {FactorTexts(x.unit[i]) :
                                          i \in DOMAIN x.unit}] :
                         \A i \in DOMAIN x.unit :
                             f[i] \in FactorTexts(x.unit[i])}}

C21_DisplayString ==
    (/\ result.op = "quantity_display_str"
     /\ ReducibleUnit(result.args.x.unit)) =>
        /\ result.raised = "none"
        /\ result.value \in DisplayTexts(result.args.x)

\* C21 in the registries whose symbols are all registered under the name
\* of a canonical unit or prefix
SymbolsUnderCanonicalNames ==
    /\ \A k \in DOMAIN _units_to_symbols : CanonicalUnit(k) = k
    /\ \A k \in DOMAIN _prefixes_to_symbols : CanonicalPrefix(k) = k

DisplayStringOfCanonicalSymbols ==
    SymbolsUnderCanonicalNames => C21_DisplayString

\* the layout of C21 for any components, the symbol of a name being the
\* symbol registered under that very name
DisplayLayout ==
    result.op = "quantity_display_str" =>
        LET x == result.args.x
            text(name, symbols) ==
                IF name \in DOMAIN symbols THEN symbols[name] ELSE name
            factor(i) ==
                (IF x.unit[i].component.type = "str" THEN ""
                 ELSE text(x.unit[i].component.prefix, _prefixes_to_symbols))
                    \o text(x.unit[i].component.core, _units_to_symbols)
                    \o (IF x.unit[i].power = D(1) THEN ""
                        ELSE "^" \o DecStr(x.unit[i].power))
        IN  /\ result.raised = "none"
            /\ x.unit = <<>> => result.value = DecStr(x.magnitude)
            /\ result.value
                   = Join(<<DecStr(x.magnitude)>>
                              \o [i \in DOMAIN x.unit |-> factor(i)])

(***************************************************************************)
(* C22: in every registry the definitions reach, the root reduction of the *)
(* unit that a name resolves to returns a quantity: it raises neither the  *)
(* KeyError of a component that is not bound nor the AssertionError of a   *)
(* definition of another kind than root or derived.                        *)
(***************************************************************************)
C22_ReductionTotalOnResolvedUnits ==
    \A name \in Names :
        Resolve(name).raised = "none"
            => _unit_root_value(App, Resolve(name).value.unit).raised = "none"

\* C22 for the names bound to root and derived units
ReductionTotalOnCanonicalNames ==
    \A name \in BoundUnits :
        ~IsAlias(name)
            => /\ Resolve(name).raised = "none"
               /\ _unit_root_value(App, Resolve(name).value.unit).raised
                      = "none"

(***************************************************************************)
(* C23: the root value stored for a derived unit is fully root-reduced:    *)
(* every component of its unit is the unprefixed name of a root unit, once *)
(* and with an exponent that is not zero; it is the reduction of the value *)
(* the unit was defined with, taken when it was defined, and no later      *)
(* definition changes it.                                                  *)
(***************************************************************************)
RootReduced(unit) ==
    /\ Len(unit) = Cardinality(UnitKeys(unit))
    /\ \A i \in DOMAIN unit :
           /\ unit[i].component.type = "str"
           /\ unit[i].component.core \in BoundUnits
           /\ IsRoot(unit[i].component.core)
           /\ unit[i].power # D(0)

StoredRootValuesReduced ==
    \A name \in BoundUnits :
        IsDerived(name) => RootReduced(_unit_definitions[name].root_value.unit)

\* a step keeps the definition of every derived unit, and a definition of a
\* derived unit stores the reduction of its value in the registry it is
\* called on
StoredRootValuesFrozen ==
    \/ App' = App
    \/ /\ \A name \in BoundUnits :
              IsDerived(name)
                  => /\ name \in DOMAIN _unit_definitions'
                     /\ _unit_definitions'[name] = _unit_definitions[name]
       /\ result'.op = "define_derived_unit" =>
              LET reduced == _unit_root_value(App, result'.args.value.unit)
              IN  _unit_definitions'[result'.args.unit].root_value
                      = Quantity(DecMul(result'.args.value.magnitude,
                                        reduced.value.magnitude),
                                 reduced.value.unit)

\* C23: stored root values are root-reduced in every state and kept by
\* every step
C23_StoredRootValueFrozen ==
    []StoredRootValuesReduced /\ [][StoredRootValuesFrozen]_vars

\* m is defined as 5 s and ms, through m, as 5 m^-1: ms has the stored root
\* value 25 s^-1; a later definition of m with another value was refused
C23_Witness ==
    /\ result.op = "define_derived_unit"
    /\ result.args.unit = "m"
    /\ result.args.value = Quantity(D(5), <<>>)
    /\ result.raised = "ValueError"
    /\ "s" \in BoundUnits /\ IsRoot("s")
    /\ "m" \in BoundUnits /\ IsDerived("m")
    /\ "ms" \in BoundUnits /\ IsDerived("ms")
    /\ _unit_definitions["m"].root_value
           = Quantity(D(5), <<Item(Str("s"), D(1))>>)
    /\ _unit_definitions["ms"].root_value
           = Quantity(D(25), <<Item(Str("s"), D(-1))>>)

(***************************************************************************)
(* C24: the value of a prefix alias or prefix symbol whose chain ends in a *)
(* canonical prefix is the value of that canonical prefix, returned        *)
(* without an error; so the reduction of a component that names the        *)
(* prefix through the alias is the reduction of the component that names   *)
(* the canonical prefix.                                                   *)
(***************************************************************************)
C24_PrefixAliasHasCanonicalValue ==
    \A prefix \in BoundPrefixes :
        CanonicalPrefix(prefix) # "" =>
            /\ _prefix_value(App, prefix)
                   = Return(App,
                         _prefix_definitions[CanonicalPrefix(prefix)].value)
            /\ \A core \in BoundUnits, p \in Powers :
                   _unit_root_value(App, <<Item(Tuple(prefix, core), p)>>)
                       = _unit_root_value(
                             App, <<Item(Tuple(CanonicalPrefix(prefix), core),
                                         p)>>)

\* C24 for the canonical prefixes themselves
CanonicalPrefixHasItsValue ==
    \A prefix \in BoundPrefixes :
        IsCanonicalPrefix(prefix)
            => _prefix_value(App, prefix)
                   = Return(App, _prefix_definitions[prefix].value)

====
